---- MODULE Spec2Model ----
(***************************************************************************)
(* Model of mmhuman3d's torch3d point-cloud renderer                       *)
(* (pointcloud_renderer.py: PointCloudRenderer) and of the batched render  *)
(* loop that drives a renderer (render_runner.py: render).                 *)
(*                                                                         *)
(* Python values are records tagged with a `kind` field.  A tensor of a    *)
(* batch of rendered images is the sequence of its per-frame entries, so   *)
(* torch.cat is sequence concatenation.  Device placement (.to(device))    *)
(* moves data without changing any value represented here.                 *)
(***************************************************************************)
EXTENDS Integers, Sequences, FiniteSets, TLC

\* ---------------------------------------------------------------- bounds
MaxFrames == 4
MaxBatch == 3

\* ---------------------------------------------------------------- values
None == [kind |-> "None"]

Tensor(ndim, data) == [kind |-> "Tensor", ndim |-> ndim, data |-> data]

\* t[None]: a new leading dimension of size 1.
Unsqueeze(t) == [t EXCEPT !.ndim = t.ndim + 1]

RECURSIVE Range(_, _)
\* list(range(lo, hi))
Range(lo, hi) == IF lo >= hi THEN << >> ELSE <<lo>> \o Range(lo + 1, hi)

Min(a, b) == IF a <= b THEN a ELSE b

\* ------------------------------------------------- PointCloudRenderer
Resolutions == {<<4, 4>>}
OtherSizes == {<<8, 8>>}
Float(s) == [kind |-> "float", v |-> s]
RadiusArgs == {None, Float("0.05")}
Str(s) == [kind |-> "str", s |-> s]
OutputPaths == {None, Str("out")}
Devices == {None, Str("cuda")}

\* A pre-built rasterizer module carries its raster_settings; a configuration
\* dict is the mapping of its keys (a `radius` key may be absent).
RasterizerArgs ==
    {[kind |-> "Module", raster_settings |-> [image_size |-> s, radius |-> Float("0.02")]] :
        s \in Resolutions \cup OtherSizes}
    \cup {[kind |-> "dict", items |-> [points_per_pixel |-> 10]],
          [kind |-> "dict", items |-> [points_per_pixel |-> 10, radius |-> Float("0.02")]],
          [kind |-> "dict", items |-> [image_size |-> <<8, 8>>, radius |-> Float("0.02")]]}
    \cup {None, Str("points")}

CompositorArgs ==
    {[kind |-> "dict", items |-> [background_color |-> "white"]],
     [kind |-> "Module", cls |-> "NormWeightedCompositor"],
     None}

\* dict[key] = value
DictSet(d, key, value) ==
    [k \in DOMAIN d \cup {key} |-> IF k = key THEN value ELSE d[k]]

Unset == [kind |-> "unset"]

\* Evaluating self.<attr> of an nn.Module: an attribute never assigned
\* raises AttributeError.
HasAttr(self, attr) == self[attr] # Unset

\* InitRasterizer with the radius written into the dict unconditionally.
InitRasterizer_RadiusAlways(self, rasterizer) ==
    IF rasterizer.kind = "Module"
    THEN [self |-> [self EXCEPT !.rasterizer =
                        [rasterizer EXCEPT !.raster_settings.image_size = self.resolution]],
          err |-> "none"]
    ELSE IF rasterizer.kind = "dict"
    THEN LET sized == DictSet(rasterizer.items, "image_size", self.resolution)
         IN [self |-> [self EXCEPT !.rasterizer =
                        [kind |-> "Module", cls |-> "PointsRasterizer",
                         raster_settings |-> DictSet(sized, "radius", self.radius)]],
             err |-> "none"]
    ELSE [self |-> self,
          err |-> IF HasAttr(self, "rasterizer") THEN "TypeError" ELSE "AttributeError"]

\* The rasterizer branch of _init_renderer.
InitRasterizer(self, rasterizer) ==
    IF rasterizer.kind = "Module"
    THEN [self |-> [self EXCEPT !.rasterizer =
                        [rasterizer EXCEPT !.raster_settings.image_size = self.resolution]],
          err |-> "none"]
    ELSE IF rasterizer.kind = "dict"
    THEN LET sized == DictSet(rasterizer.items, "image_size", self.resolution)
             kw == IF self.radius # None
                   THEN DictSet(sized, "radius", self.radius)
                   ELSE sized
         IN [self |-> [self EXCEPT !.rasterizer =
                        [kind |-> "Module", cls |-> "PointsRasterizer",
                         raster_settings |-> kw]],
             err |-> "none"]
    ELSE [self |-> self,
          err |-> IF HasAttr(self, "rasterizer") THEN "TypeError" ELSE "AttributeError"]

\* The compositor branch of _init_renderer.
InitCompositor(self, compositor) ==
    IF compositor.kind = "dict"
    THEN [self |-> [self EXCEPT !.compositor =
                        [kind |-> "Module", cls |-> "AlphaCompositor",
                         kwargs |-> compositor.items]],
          err |-> "none"]
    ELSE IF compositor.kind = "Module"
    THEN [self |-> [self EXCEPT !.compositor = compositor], err |-> "none"]
    ELSE [self |-> self,
          err |-> IF HasAttr(self, "compositor") THEN "TypeError" ELSE "AttributeError"]

\* PointCloudRenderer._init_renderer(rasterizer, compositor)
InitRenderer(self, rasterizer, compositor) ==
    LET r == InitRasterizer(self, rasterizer)
    IN IF r.err # "none" THEN r
       ELSE LET c == InitCompositor(r.self, compositor)
            IN IF c.err # "none" THEN c
               ELSE [self |-> [c.self EXCEPT !.shader_type = None], err |-> "none"]

\* ------------------------------------------------------------ forward
\* Pointclouds(points=..., features=...)
Pointclouds(points, features) ==
    [kind |-> "Pointclouds", points |-> points, features |-> features]

\* mesh_to_pointcloud_vc(meshes): the vertices of each mesh with their
\* vertex colours, one cloud per mesh of the batch.
mesh_to_pointcloud_vc(meshes) == [kind |-> "Pointclouds", from_meshes |-> meshes]

\* self._init_cameras(K=K, R=R, T=T)
InitCameras(K, R, T) == [kind |-> "Cameras", K |-> K, R |-> R, T |-> T]

\* len(pointclouds): the clouds built or passed directly hold one cloud.
BatchLen(pointclouds) ==
    IF "from_meshes" \in DOMAIN pointclouds
    THEN Len(pointclouds.from_meshes.frames)
    ELSE 1

\* The j-th cloud of the batch and the camera it is projected with.
CloudAt(pointclouds, j) ==
    IF "from_meshes" \in DOMAIN pointclouds
    THEN [mesh |-> pointclouds.from_meshes.frames[j]]
    ELSE [cloud |-> pointclouds]

CameraAt(cameras, j) ==
    IF "cams" \in DOMAIN cameras THEN [cam |-> cameras.cams[j]] ELSE [built |-> cameras]

\* Rasterization and alpha compositing of a batch: one image per cloud,
\* determined by the cloud, its camera, the raster settings and the
\* compositor.
Rasterize(self, pointclouds, cameras) ==
    [kind |-> "Tensor",
     entries |-> [j \in 1..BatchLen(pointclouds) |->
                    [geometry |-> CloudAt(pointclouds, j),
                     camera |-> CameraAt(cameras, j),
                     raster_settings |-> self.rasterizer.raster_settings,
                     compositor |-> self.compositor]]]

\* SelectPointclouds with the redundancy test looking at vertices only.
SelectPointclouds_VerticesOnly(a) ==
    IF a.pointclouds = None
    THEN IF a.meshes # None
         THEN [ok |-> TRUE, warned |-> FALSE,
               pointclouds |-> mesh_to_pointcloud_vc(a.meshes)]
         ELSE IF a.vertices = None
         THEN [ok |-> FALSE, warned |-> FALSE, pointclouds |-> None]
         ELSE LET v == IF a.vertices.kind = "Tensor" /\ a.vertices.ndim = 2
                       THEN Unsqueeze(a.vertices) ELSE a.vertices
                  c == IF a.verts_rgba.kind = "Tensor" /\ a.verts_rgba.ndim = 2
                       THEN Unsqueeze(a.verts_rgba) ELSE a.verts_rgba
              IN [ok |-> TRUE, warned |-> FALSE, pointclouds |-> Pointclouds(v, c)]
    ELSE [ok |-> TRUE,
          warned |-> (a.vertices # None),
          pointclouds |-> a.pointclouds]

\* The geometry selection at the head of forward.
SelectPointclouds(a) ==
    IF a.pointclouds = None
    THEN IF a.meshes # None
         THEN [ok |-> TRUE, warned |-> FALSE,
               pointclouds |-> mesh_to_pointcloud_vc(a.meshes)]
         ELSE IF a.vertices = None
         THEN [ok |-> FALSE, warned |-> FALSE, pointclouds |-> None]
         ELSE LET v == IF a.vertices.kind = "Tensor" /\ a.vertices.ndim = 2
                       THEN Unsqueeze(a.vertices) ELSE a.vertices
                  c == IF a.verts_rgba.kind = "Tensor" /\ a.verts_rgba.ndim = 2
                       THEN Unsqueeze(a.verts_rgba) ELSE a.verts_rgba
              IN [ok |-> TRUE, warned |-> FALSE, pointclouds |-> Pointclouds(v, c)]
    ELSE [ok |-> TRUE,
          warned |-> (a.vertices # None \/ a.verts_rgba # None),
          pointclouds |-> a.pointclouds]

\* SelectCameras building the camera from K, R, T even when one is given.
SelectCameras_AlwaysBuilt(a) == InitCameras(a.K, a.R, a.T)

\* The camera selection of forward.
SelectCameras(a) ==
    IF a.cameras = None THEN InitCameras(a.K, a.R, a.T) ELSE a.cameras

\* WriteImages without the output_path test.
WriteImages_Unguarded(self, rendered_images, images, indexes) ==
    <<[rgba |-> rendered_images, images |-> images, indexes |-> indexes,
       output_path |-> self.output_path]>>

\* The write at the tail of forward: the calls of self.write_images.
WriteImages(self, rendered_images, images, indexes) ==
    IF self.output_path # None
    THEN <<[rgba |-> rendered_images, images |-> images, indexes |-> indexes,
            output_path |-> self.output_path]>>
    ELSE << >>

\* PointCloudRenderer.forward(**a): the outcome of one call, with the calls
\* it made in order.
Forward(self, a) ==
    LET sel == SelectPointclouds(a)
    IN IF ~sel.ok
       THEN [err |-> "AssertionError", warned |-> FALSE, steps |-> << >>,
             pointclouds |-> None, cameras |-> None, writes |-> << >>, ret |-> None]
       ELSE LET cameras == SelectCameras(a)
                rendered_images == Rasterize(self, sel.pointclouds, cameras)
                writes == WriteImages(self, rendered_images, a.images, a.indexes)
            IN [err |-> "none", warned |-> sel.warned,
                steps |-> (IF sel.warned THEN <<"warn">> ELSE << >>)
                          \o (IF a.cameras = None THEN <<"_init_cameras">> ELSE << >>)
                          \o <<"_update_resolution", "rasterizer", "compositor">>
                          \o (IF Len(writes) > 0
                              THEN <<"tensor2rgba", "write_images">> ELSE << >>),
                pointclouds |-> sel.pointclouds, cameras |-> cameras,
                writes |-> writes, ret |-> rendered_images]

\* Arguments of direct calls of forward.
VertexArgs == {None, Tensor(2, "verts"), Tensor(3, "verts")}
ColorArgs == {None, Tensor(2, "rgba"), Tensor(3, "rgba")}
PointcloudArgs ==
    {None, Pointclouds(Tensor(3, "cloud_points"), Tensor(3, "cloud_features"))}
MeshArgs == {None, [kind |-> "Meshes", frames |-> <<0>>]}
CameraArgs == {None, [kind |-> "Cameras", cams |-> <<0>>]}
MatrixArgs == {[K |-> None, R |-> None, T |-> None],
               [K |-> Tensor(3, "K"), R |-> Tensor(3, "R"), T |-> Tensor(2, "T")]}
ImageArgs == {[images |-> None, indexes |-> None],
              [images |-> Tensor(4, "background"), indexes |-> [kind |-> "list", items |-> <<7>>]]}

ForwardArgs ==
    {[pointclouds |-> p, vertices |-> v, verts_rgba |-> c, meshes |-> m,
      K |-> krt.K, R |-> krt.R, T |-> krt.T, cameras |-> cam,
      images |-> im.images, indexes |-> im.indexes] :
        p \in PointcloudArgs, v \in VertexArgs, c \in ColorArgs, m \in MeshArgs,
        krt \in MatrixArgs, cam \in CameraArgs, im \in ImageArgs}

\* ------------------------------------------------------- render_runner
\* cameras.extend(N) of a single camera: N copies of it.
Extend(cams, N) == [k \in 1..N |-> cams[1]]

\* x[indexes] for a batched structure (frames are numbered from 0).
Select(items, indexes) == [k \in 1..Len(indexes) |-> items[indexes[k] + 1]]

\* math.ceil(num_frames // batch_size): the floor division yields an
\* integer, which math.ceil returns unchanged.
NumChunks(num_frames, batch_size) == num_frames \div batch_size

\* ChunkIndexes with the chunk starting one frame late.
ChunkIndexes_ShiftedByOne(i, batch_size, num_frames) ==
    Range(i * batch_size + 1, Min((i + 1) * batch_size + 1, num_frames))

\* list(range(i * batch_size, min((i + 1) * batch_size, len(meshes))))
ChunkIndexes(i, batch_size, num_frames) ==
    Range(i * batch_size, Min((i + 1) * batch_size, num_frames))

\* The keyword arguments of the renderer call of the loop body.
ChunkArgs(meshes, cameras, indexes) ==
    [pointclouds |-> None, vertices |-> None, verts_rgba |-> None,
     meshes |-> [kind |-> "Meshes", frames |-> Select(meshes, indexes)],
     K |-> None, R |-> None, T |-> None,
     cameras |-> [kind |-> "Cameras", cams |-> Select(cameras, indexes)],
     images |-> None,
     indexes |-> [kind |-> "list", items |-> indexes]]

\* images_batch['tensor']: defined for a mapping; indexing a tensor with a
\* string raises IndexError.
TensorItem(images_batch) ==
    IF images_batch.kind = "dict"
    THEN [err |-> "none", value |-> images_batch.tensor]
    ELSE [err |-> "IndexError", value |-> None]

RECURSIVE Concat(_)
Concat(ts) == IF ts = << >> THEN << >> ELSE Head(ts).entries \o Concat(Tail(ts))

\* torch.cat(tensors): an empty list raises RuntimeError.
TorchCat(tensors) ==
    IF tensors = << >>
    THEN [err |-> "RuntimeError", value |-> None]
    ELSE [err |-> "none", value |-> [kind |-> "Tensor", entries |-> Concat(tensors)]]

VARIABLES renderer, phase, last, run

vars == <<renderer, phase, last, run>>

Idle == [op |-> "none"]

NotRunning == [pc |-> "idle"]

\* PointCloudRenderer.__init__ up to the point where the base class calls
\* _init_renderer: the settings are stored, rasterizer and compositor are
\* not assigned yet.
Init ==
    /\ renderer \in {[resolution |-> res, radius |-> rad, device |-> Str("cpu"),
                      output_path |-> out, rasterizer |-> Unset,
                      compositor |-> Unset, shader_type |-> Unset] :
                        res \in Resolutions, rad \in RadiusArgs, out \in OutputPaths}
    /\ phase = "constructing"
    /\ last = Idle
    /\ run = NotRunning

\* _init_renderer called by the constructor, or again on a built renderer.
\* An exception during construction leaves no renderer to use.
CallInitRenderer ==
    /\ phase \in {"constructing", "ready"}
    /\ last = Idle /\ run = NotRunning
    /\ \E ras \in RasterizerArgs, comp \in CompositorArgs :
        LET r == InitRenderer(renderer, ras, comp)
        IN /\ renderer' = r.self
           /\ last' = [op |-> "_init_renderer", rasterizer |-> ras, compositor |-> comp,
                       err |-> r.err]
           /\ phase' = IF r.err = "none" THEN "ready"
                       ELSE IF phase = "constructing" THEN "failed" ELSE "ready"
    /\ UNCHANGED run

\* A direct call renderer(...) of a built renderer.
CallForward ==
    /\ phase = "ready"
    /\ last = Idle /\ run = NotRunning
    /\ \E a \in ForwardArgs :
        last' = [op |-> "forward", args |-> a, out |-> Forward(renderer, a)]
    /\ UNCHANGED <<renderer, phase, run>>

\* render(...) up to the loop: the renderer takes the output path
\* (_set_output_path stores it) and the device when given, a single camera
\* is extended to one per frame, and the loop is set up.  `wrapped` tells whether the renderer hands its image
\* back as {'tensor': image} rather than as the bare image of
\* PointCloudRenderer.forward.
RenderBegin ==
    /\ phase = "ready"
    /\ last = Idle /\ run = NotRunning
    /\ \E output_path \in OutputPaths, device \in Devices,
          num_frames \in 0..MaxFrames, batch_size \in 1..MaxBatch,
          one_camera \in BOOLEAN, return_tensor \in BOOLEAN,
          no_grad \in BOOLEAN, wrapped \in BOOLEAN :
        LET cams == IF one_camera THEN <<0>> ELSE [k \in 1..num_frames |-> k - 1]
        IN /\ renderer' = [renderer EXCEPT
                            !.output_path = IF output_path # None THEN output_path ELSE @,
                            !.device = IF device # None THEN device ELSE @]
           /\ run' = [pc |-> "loop",
                      meshes |-> [k \in 1..num_frames |-> k - 1],
                      num_frames |-> num_frames,
                      given_cameras |-> cams,
                      cameras |-> IF Len(cams) = 1 THEN Extend(cams, num_frames) ELSE cams,
                      batch_size |-> batch_size,
                      return_tensor |-> return_tensor,
                      no_grad |-> no_grad,
                      wrapped |-> wrapped,
                      i |-> 0,
                      indexes |-> << >>,
                      images_batch |-> None,
                      tensors |-> << >>,
                      grad_enabled |-> TRUE,
                      calls |-> << >>,
                      exports |-> << >>,
                      ret |-> None,
                      err |-> "none"]
    /\ UNCHANGED <<phase, last>>

\* for i in trange(...): the next chunk's indexes, or the end of the loop.
LoopStep ==
    /\ run.pc = "loop"
    /\ IF run.i < NumChunks(run.num_frames, run.batch_size)
       THEN run' = [run EXCEPT
                     !.indexes = ChunkIndexes(run.i, run.batch_size, run.num_frames),
                     !.pc = IF run.no_grad THEN "enter_no_grad" ELSE "invoke"]
       ELSE run' = [run EXCEPT !.pc = "export"]
    /\ UNCHANGED <<renderer, phase, last>>

\* with torch.no_grad():
EnterNoGrad ==
    /\ run.pc = "enter_no_grad"
    /\ run' = [run EXCEPT !.grad_enabled = FALSE, !.pc = "invoke"]
    /\ UNCHANGED <<renderer, phase, last>>

\* images_batch = renderer(meshes=meshes[indexes], cameras=cameras[indexes],
\*                         indexes=indexes)
InvokeRenderer ==
    /\ run.pc = "invoke"
    /\ LET a == ChunkArgs(run.meshes, run.cameras, run.indexes)
           out == Forward(renderer, a)
       IN run' = [run EXCEPT
                   !.images_batch = IF run.wrapped
                                    THEN [kind |-> "dict", tensor |-> out.ret]
                                    ELSE out.ret,
                   !.calls = Append(@, [args |-> a, out |-> out,
                                        grad_enabled |-> run.grad_enabled]),
                   !.pc = IF run.no_grad THEN "exit_no_grad" ELSE "append"]
    /\ UNCHANGED <<renderer, phase, last>>

\* ExitNoGrad that leaves gradient tracking off.
ExitNoGrad_StaysOff ==
    /\ run.pc = "exit_no_grad"
    /\ run' = [run EXCEPT !.pc = "append"]
    /\ UNCHANGED <<renderer, phase, last>>

\* Leaving the with block restores gradient tracking.
ExitNoGrad ==
    /\ run.pc = "exit_no_grad"
    /\ run' = [run EXCEPT !.grad_enabled = TRUE, !.pc = "append"]
    /\ UNCHANGED <<renderer, phase, last>>

\* if return_tensor: tensors.append(images_batch['tensor'])
AppendTensor ==
    /\ run.pc = "append"
    /\ IF run.return_tensor
       THEN LET t == TensorItem(run.images_batch)
            IN IF t.err # "none"
               THEN run' = [run EXCEPT !.err = t.err, !.pc = "raised"]
               ELSE run' = [run EXCEPT !.tensors = Append(@, t.value),
                                       !.i = @ + 1, !.pc = "loop"]
       ELSE run' = [run EXCEPT !.i = @ + 1, !.pc = "loop"]
    /\ UNCHANGED <<renderer, phase, last>>

\* renderer.export()
Export ==
    /\ run.pc = "export"
    /\ run' = [run EXCEPT
                !.exports = Append(@, [after_calls |-> Len(run.calls),
                                       grad_enabled |-> run.grad_enabled]),
                !.pc = "return"]
    /\ UNCHANGED <<renderer, phase, last>>

\* if return_tensor: return torch.cat(tensors); otherwise the function ends
\* and returns None.
RenderReturn ==
    /\ run.pc = "return"
    /\ IF run.return_tensor
       THEN LET t == TorchCat(run.tensors)
            IN IF t.err # "none"
               THEN run' = [run EXCEPT !.err = t.err, !.pc = "raised"]
               ELSE run' = [run EXCEPT !.ret = t.value, !.pc = "done"]
       ELSE run' = [run EXCEPT !.ret = None, !.pc = "done"]
    /\ UNCHANGED <<renderer, phase, last>>

\* The caller takes the result (or the exception) of the finished call.
Return ==
    /\ \/ last # Idle
       \/ run.pc \in {"done", "raised"}
    /\ last' = Idle
    /\ run' = NotRunning
    /\ UNCHANGED <<renderer, phase>>

Next ==
    \/ CallInitRenderer
    \/ CallForward
    \/ RenderBegin
    \/ LoopStep
    \/ EnterNoGrad
    \/ InvokeRenderer
    \/ ExitNoGrad
    \/ AppendTensor
    \/ Export
    \/ RenderReturn
    \/ Return

Spec == Init /\ [][Next]_vars

\* ------------------------------------------------------------ properties
Elems(seq) == {seq[k] : k \in 1..Len(seq)}

Running == run.pc # "idle"

\* The renderer calls made so far by the render() in progress, and the
\* direct forward call whose result is pending.
ForwardCalls ==
    (IF Running THEN {[args |-> c.args, out |-> c.out] : c \in Elems(run.calls)} ELSE {})
    \cup (IF last.op = "forward" THEN {[args |-> last.args, out |-> last.out]} ELSE {})

RECURSIVE RenderedFrames(_)
\* The frame indexes handed to the renderer, in call order.
RenderedFrames(calls) ==
    IF calls = << >> THEN << >>
    ELSE Head(calls).args.indexes.items \o RenderedFrames(Tail(calls))

LoopFinished == Running /\ run.pc \in {"export", "return", "done"}

Finished == Running /\ run.pc \in {"done", "raised"}

\* C1: once the loop of render() has ended, the frame indexes passed to the
\* renderer are exactly 0..num_frames-1, each once, in increasing order.
C1_EveryFrameRenderedOnce ==
    LoopFinished => RenderedFrames(run.calls) = Range(0, run.num_frames)

\* C2: with return_tensor and at least one frame, render() returns the
\* concatenation of the renderer outputs in chunk order, one entry per frame;
\* without return_tensor nothing is accumulated and it returns None.
C2_ReturnsOneEntryPerFrame ==
    Finished =>
        IF run.return_tensor
        THEN run.num_frames >= 1 =>
                /\ run.pc = "done"
                /\ run.ret.kind = "Tensor"
                /\ Len(run.ret.entries) = run.num_frames
                /\ run.ret.entries = Concat([k \in 1..Len(run.calls) |-> run.calls[k].out.ret])
        ELSE run.pc = "done" /\ run.ret = None /\ run.tensors = << >>

\* C3: a finished render() none of whose renderer invocations raised has
\* called renderer.export() exactly once, after the last invocation.
C3_ExportExactlyOnce ==
    (Finished /\ \A c \in Elems(run.calls) : c.out.err = "none") =>
        /\ Len(run.exports) = 1
        /\ run.exports[1].after_calls = Len(run.calls)

\* Positions of render() outside the with torch.no_grad() block.
OutsideNoGrad == {"loop", "enter_no_grad", "append", "export", "return", "done", "raised"}

\* C4: with no_grad every renderer invocation runs with gradient tracking
\* off and tracking is on again after it, during export and at return;
\* without no_grad tracking is never off; and the k-th invocation gets the
\* k-th chunk of batch_size frames whatever no_grad is.
C4_NoGradScope ==
    Running =>
        /\ \A c \in Elems(run.calls) : c.grad_enabled = ~run.no_grad
        /\ \A e \in Elems(run.exports) : e.grad_enabled
        /\ run.pc \in OutsideNoGrad => run.grad_enabled
        /\ ~run.no_grad => run.grad_enabled
        /\ \A k \in 1..Len(run.calls) :
            LET last_frame == IF k * run.batch_size <= run.num_frames
                              THEN k * run.batch_size ELSE run.num_frames
                idx == Range((k - 1) * run.batch_size, last_frame)
            IN /\ run.calls[k].args.indexes.items = idx
               /\ run.calls[k].args.meshes.frames = idx
               /\ Len(run.calls[k].args.cameras.cams) = Len(idx)

C4_Witness ==
    /\ Running /\ run.pc = "done" /\ run.no_grad
    /\ Len(run.calls) >= 2 /\ Len(run.exports) = 1

WrongType(arg) == arg.kind \notin {"Module", "dict"}

\* C5: _init_renderer raises TypeError when the rasterizer or the compositor
\* is neither a module nor a dict, and otherwise raises nothing and leaves
\* both attributes set.
C5_TypeErrorOnWrongType ==
    last.op = "_init_renderer" =>
        IF WrongType(last.rasterizer) \/ WrongType(last.compositor)
        THEN last.err = "TypeError"
        ELSE /\ last.err = "none"
             /\ renderer.rasterizer # Unset
             /\ renderer.compositor # Unset

Redundant(a) == a.pointclouds # None /\ (a.vertices # None \/ a.verts_rgba # None)

\* C6: forward warns exactly when pointclouds comes with vertices or
\* verts_rgba; such a call completes and renders the given pointclouds, with
\* the result it has without vertices and verts_rgba.
C6_RedundantInputWarning ==
    \A c \in ForwardCalls :
        /\ c.out.warned <=> Redundant(c.args)
        /\ Redundant(c.args) =>
            /\ c.out.err = "none"
            /\ c.out.pointclouds = c.args.pointclouds
            /\ \A j \in 1..Len(c.out.ret.entries) :
                c.out.ret.entries[j].geometry = [cloud |-> c.args.pointclouds]
            /\ c.out.ret =
                Forward(renderer, [c.args EXCEPT !.vertices = None, !.verts_rgba = None]).ret

C6_Witness ==
    /\ last.op = "forward"
    /\ last.args.pointclouds # None /\ last.args.vertices # None
    /\ last.args.meshes # None
    /\ last.out.warned /\ last.out.err = "none"

\* C7: a completed forward returns the rendered images; it calls
\* write_images once, with the caller's images and indexes, when output_path
\* is set and not at all otherwise, and the returned tensor is the same
\* either way.
C7_ReturnsImagesWritesIfPath ==
    \A c \in ForwardCalls :
        c.out.err = "none" =>
            /\ c.out.ret.kind = "Tensor"
            /\ c.out.ret = Rasterize([renderer EXCEPT !.output_path = None],
                                     c.out.pointclouds, c.out.cameras)
            /\ Len(c.out.ret.entries) >= 1
            /\ Len(c.out.writes) = IF renderer.output_path # None THEN 1 ELSE 0
            /\ \A w \in Elems(c.out.writes) :
                /\ w.rgba = c.out.ret
                /\ w.images = c.args.images
                /\ w.indexes = c.args.indexes

C7_Witness ==
    /\ last.op = "forward" /\ last.out.err = "none"
    /\ renderer.output_path # None
    /\ last.args.images # None
    /\ Len(last.out.writes) = 1

\* A 2-D tensor with a leading batch dimension of 1; other values as is.
Batched(t) == IF t.kind = "Tensor" /\ t.ndim = 2 THEN Tensor(3, t.data) ELSE t

\* C8: forward renders pointclouds if given, else the clouds of meshes if
\* given, else the cloud of vertices and verts_rgba (2-D tensors batched);
\* with none of the three it fails on the assertion having done nothing;
\* cameras is used as is when given and built from K, R, T only otherwise.
C8_InputPrecedence ==
    \A c \in ForwardCalls :
        LET a == c.args
        IN /\ a.pointclouds # None => c.out.pointclouds = a.pointclouds
           /\ (a.pointclouds = None /\ a.meshes # None) =>
                c.out.pointclouds = [kind |-> "Pointclouds", from_meshes |-> a.meshes]
           /\ (a.pointclouds = None /\ a.meshes = None /\ a.vertices # None) =>
                c.out.pointclouds =
                    [kind |-> "Pointclouds", points |-> Batched(a.vertices),
                     features |-> Batched(a.verts_rgba)]
           /\ (a.pointclouds = None /\ a.meshes = None /\ a.vertices = None) =>
                /\ c.out.err = "AssertionError"
                /\ c.out.steps = << >>
                /\ c.out.writes = << >>
                /\ c.out.ret = None
           /\ c.out.err = "none" =>
                /\ a.cameras # None =>
                    /\ c.out.cameras = a.cameras
                    /\ "_init_cameras" \notin Elems(c.out.steps)
                /\ a.cameras = None =>
                    /\ c.out.cameras = [kind |-> "Cameras", K |-> a.K, R |-> a.R, T |-> a.T]
                    /\ "_init_cameras" \in Elems(c.out.steps)
                /\ \A j \in 1..Len(c.out.ret.entries) :
                    c.out.ret.entries[j].camera = CameraAt(c.out.cameras, j)

C8_Witness ==
    /\ last.op = "forward" /\ last.out.err = "none"
    /\ last.args.pointclouds = None /\ last.args.meshes = None
    /\ last.args.vertices = Tensor(2, "verts")
    /\ last.args.verts_rgba = Tensor(2, "rgba")
    /\ last.args.cameras # None /\ last.args.K # None

\* C9: every chunk render() hands to the renderer is a non-empty run of
\* consecutive indexes, at most batch_size of them, all below num_frames;
\* the same indexes select the meshes and the cameras and are passed as
\* indexes, and frame i gets camera i, the single camera when one was given.
C9_ChunkWellFormed ==
    Running =>
        /\ Len(run.given_cameras) = 1 => Len(run.cameras) = run.num_frames
        /\ \A c \in Elems(run.calls) :
            LET idx == c.args.indexes.items
            IN /\ Len(idx) >= 1
               /\ Len(idx) <= run.batch_size
               /\ \A k \in 1..Len(idx) : idx[k] = idx[1] + k - 1 /\ idx[k] < run.num_frames
               /\ idx[1] >= 0
               /\ c.args.meshes.frames = idx
               /\ Len(c.args.cameras.cams) = Len(idx)
               /\ \A k \in 1..Len(idx) :
                    c.args.cameras.cams[k] =
                        IF Len(run.given_cameras) = 1 THEN run.given_cameras[1] ELSE idx[k]

C9_Witness ==
    /\ Running /\ Len(run.calls) >= 2
    /\ Len(run.given_cameras) = 1 /\ run.num_frames >= 3
    /\ run.batch_size >= 2

\* C10: after a successful _init_renderer the rasterizer's image size is the
\* renderer's resolution; a dict's radius is replaced by the renderer's
\* radius exactly when that is not None, and a module's radius is kept.
C10_ImageSizeAndRadius ==
    (last.op = "_init_renderer" /\ last.err = "none") =>
        LET settings == renderer.rasterizer.raster_settings
            arg == last.rasterizer
        IN /\ settings.image_size = renderer.resolution
           /\ arg.kind = "Module" => settings.radius = arg.raster_settings.radius
           /\ (arg.kind = "dict" /\ renderer.radius # None) =>
                settings.radius = renderer.radius
           /\ (arg.kind = "dict" /\ renderer.radius = None) =>
                /\ ("radius" \in DOMAIN settings) <=> ("radius" \in DOMAIN arg.items)
                /\ "radius" \in DOMAIN settings => settings.radius = arg.items.radius

C10_Witness ==
    /\ last.op = "_init_renderer" /\ last.err = "none"
    /\ last.rasterizer.kind = "dict"
    /\ "radius" \in DOMAIN last.rasterizer.items
    /\ renderer.radius # None
    /\ renderer.rasterizer.raster_settings.radius # last.rasterizer.items.radius
====
